---- MODULE Spec2Model ----
(***************************************************************************)
(* A model of the Slack assistant: the document index of agent.py (load,   *)
(* summaries listing, selection, lookup) and the per-user conversation     *)
(* history of app.py (ask_claude, reset_command).  Handlers run on worker  *)
(* threads; every step of a handler that reads or writes shared state      *)
(* (the conversations dict, the _index object) is one action.              *)
(***************************************************************************)
EXTENDS Integers, Sequences, FiniteSets, TLC

VARIABLES
    conversations,  \* app.py:24   user_id -> list of turns (a dict: the domain grows)
    documents,      \* agent.py:23 _index.documents, in insertion order
    loaded,         \* agent.py:24 _index.loaded
    summaries_cache,\* agent.py:25 _index._summaries_cache ("" is <<>>)
    loader,         \* the thread running load_from_directory: position, directory, files left
    started,        \* app.py:234  handler.start() has been reached
    frame,          \* per worker thread: position in the call and its locals
    selLog,         \* selector requests sent to the LLM since the last load began
    nextMsg         \* number of the next inbound event (message, command) or query

vars == <<conversations, documents, loaded, summaries_cache, loader, started,
          frame, selLog, nextMsg>>

----------------------------------------------------------------------------
(* Bounds of the model *)

MaxSeqEvents == 7     \* events delivered in the one-thread specification
MaxConcEvents == 2    \* events delivered in the two-thread specification
MaxResetEvents == 3   \* events delivered in the reset specification
MaxLibCalls == 2      \* select calls in the library specifications
MaxLoads == 2         \* load calls in the library specifications
MaxLines == 3         \* lines of a selector response (library specifications)
MaxAppLines == 1      \* lines of a selector response (application specifications)
MaxDocsArg == 2       \* largest max_docs argument of a direct select call

(* Program constants *)

HistoryLimit == 10    \* app.py:82  conversations[user_id][-10:]
AskMaxDocs == 3       \* app.py:68  retrieve_documents(message, max_docs=3)

Threads == {"t1", "t2"}
Users == {"u1", "u2"}

----------------------------------------------------------------------------
(* Strings are sequences of characters. *)

NL == "\n"
Whitespace == {" ", NL}

IdA == <<"a">>
IdB == <<"b">>
IdZ == <<"z">>
Stems == {IdA, IdB}
NONE == <<"N", "O", "N", "E">>

UpperChar(c) ==
    CASE c = "n" -> "N"
      [] c = "o" -> "O"
      [] c = "e" -> "E"
      [] c = "a" -> "A"
      [] c = "b" -> "B"
      [] c = "z" -> "Z"
      [] OTHER -> c

Upper(s) == [i \in 1..Len(s) |-> UpperChar(s[i])]

RECURSIVE LStrip(_)
LStrip(s) ==
    IF s = <<>> THEN s
    ELSE IF Head(s) \in Whitespace THEN LStrip(Tail(s)) ELSE s

RECURSIVE RStrip(_)
RStrip(s) ==
    IF s = <<>> THEN s
    ELSE IF s[Len(s)] \in Whitespace THEN RStrip(SubSeq(s, 1, Len(s) - 1)) ELSE s

Strip(s) == RStrip(LStrip(s))

RECURSIVE Split(_, _)
Split(s, sep) ==
    IF \A i \in 1..Len(s) : s[i] # sep THEN <<s>>
    ELSE LET i == CHOOSE k \in 1..Len(s) :
                      s[k] = sep /\ \A j \in 1..(k - 1) : s[j] # sep
         IN <<SubSeq(s, 1, i - 1)>> \o Split(SubSeq(s, i + 1, Len(s)), sep)

RECURSIVE Join(_, _)
Join(parts, sep) ==
    IF parts = <<>> THEN <<>>
    ELSE IF Len(parts) = 1 THEN parts[1]
    ELSE parts[1] \o <<sep>> \o Join(Tail(parts), sep)

Min(a, b) == IF a < b THEN a ELSE b
Max(a, b) == IF a > b THEN a ELSE b

\* s[:k]
SliceTo(s, k) ==
    IF k >= 0 THEN SubSeq(s, 1, Min(k, Len(s)))
    ELSE SubSeq(s, 1, Max(Len(s) + k, 0))

\* s[-k:] for k > 0
SliceLast(s, k) == SubSeq(s, Max(Len(s) - k, 0) + 1, Len(s))

----------------------------------------------------------------------------
(* The corpus on disk.  A directory is missing, or holds files, each named *)
(* by its stem and either a JSON object ("ok") or not parseable as one     *)
(* ("bad").                                                                *)

MissingDir == [exists |-> FALSE, files |-> {}]
EmptyDir == [exists |-> TRUE, files |-> {}]
\* two files, one of them malformed
PartialDir == [exists |-> TRUE, files |-> {[stem |-> IdA, kind |-> "ok"],
                                           [stem |-> IdB, kind |-> "bad"]}]
\* two well-formed files
FullDir == [exists |-> TRUE, files |-> {[stem |-> IdA, kind |-> "ok"],
                                        [stem |-> IdB, kind |-> "ok"]}]
Dirs == {MissingDir, EmptyDir, PartialDir, FullDir}
\* what DOCS_DIRECTORY may be when the application starts
AppDirs == {MissingDir, EmptyDir, PartialDir}

WellFormed(d) == {f \in d.files : f.kind = "ok"}

\* the dict keys
DocIds(docs) == {docs[i].id : i \in 1..Len(docs)}

\* self.documents[doc_id] = doc: a new key goes last, a known key keeps its place
PutDocument(docs, doc) ==
    IF doc.id \in DocIds(docs)
    THEN [i \in 1..Len(docs) |-> IF docs[i].id = doc.id THEN doc ELSE docs[i]]
    ELSE Append(docs, doc)

\* one entry of the summaries listing: the 1-based index, the id and the fields
\* of the document (which are those of the file it was read from)
ListingEntry(i, doc) == [index |-> i, id |-> doc.id, src |-> doc.src]

Listing(docs) == [i \in 1..Len(docs) |-> ListingEntry(i, docs[i])]

\* [self.documents[d_id] for d_id in doc_ids if d_id in self.documents]
RECURSIVE GetDocumentsByIds(_, _)
GetDocumentsByIds(docs, doc_ids) ==
    IF doc_ids = <<>> THEN <<>>
    ELSE LET rest == GetDocumentsByIds(docs, Tail(doc_ids))
         IN IF Head(doc_ids) \in DocIds(docs)
            THEN <<docs[CHOOSE i \in 1..Len(docs) : docs[i].id = Head(doc_ids)]>> \o rest
            ELSE rest

----------------------------------------------------------------------------
(* The selector LLM call: its request and the responses it can produce.    *)

\* (mutant) the query is written into the first system block
SelectorRequestQueryInSystem(query, max_docs, summaries) ==
    [system |-> <<[text |-> [rules_max_docs |-> max_docs, listing |-> summaries,
                             query |-> query]],
                  [text |-> "Ready to select relevant documents.",
                   cache_control |-> "ephemeral"]>>,
     messages |-> <<[role |-> "user", content |-> [query |-> query]]>>]

\* the two system blocks and the user turn of the request
SelectorRequest(query, max_docs, summaries) ==
    [system |-> <<[text |-> [rules_max_docs |-> max_docs, listing |-> summaries]],
                  [text |-> "Ready to select relevant documents.",
                   cache_control |-> "ephemeral"]>>,
     messages |-> <<[role |-> "user", content |-> [query |-> query]]>>]

NoRequest == [system |-> <<>>, messages |-> <<>>]

\* A text response is a sequence of lines; a line is an id (known or not) or
\* nothing, with or without blanks around it.  The word NONE, in some casing,
\* comes alone or between blank lines.
NoneWord == <<"n", "O", "n", "e">>
BlankLine == [core |-> <<>>, pad |-> TRUE]
LineTokens == {[core |-> IdA, pad |-> FALSE],
               [core |-> IdB, pad |-> TRUE],
               [core |-> IdZ, pad |-> FALSE],
               BlankLine}
\* the lines the application specifications draw from
AppLineTokens == {[core |-> IdA, pad |-> FALSE],
                  [core |-> IdZ, pad |-> FALSE]}

NoneResponses ==
    {[kind |-> "text", lines |-> <<[core |-> NoneWord, pad |-> FALSE]>>],
     [kind |-> "text", lines |-> <<BlankLine, [core |-> NoneWord, pad |-> TRUE], BlankLine>>]}
TextResponses(tokens, n) ==
    {[kind |-> "text", lines |-> ls] : ls \in UNION {[1..k -> tokens] : k \in 1..n}}
Responses(tokens, n) ==
    TextResponses(tokens, n) \cup NoneResponses
        \cup {[kind |-> "api_error", lines |-> <<>>],
              [kind |-> "malformed", lines |-> <<>>]}
AppResponses == Responses(AppLineTokens, MaxAppLines)
LibResponses == Responses(LineTokens, MaxLines)
NoResponse == [kind |-> "none", lines |-> <<>>]

RenderLine(tok) == IF tok.pad THEN <<" ">> \o tok.core \o <<" ">> ELSE tok.core

\* response.content[0].text
ResponseText(resp) ==
    Join([i \in 1..Len(resp.lines) |-> RenderLine(resp.lines[i])], NL)

NonEmpty(line) == Strip(line) # <<>>

\* [line.strip() for line in response_text.split('\n') if line.strip()]
ExtractDocIds(response_text) ==
    LET kept == SelectSeq(Split(response_text, NL), NonEmpty)
    IN [i \in 1..Len(kept) |-> Strip(kept[i])]

\* (mutant) the lines are cut to max_docs before the unknown ids are dropped
ParseSelectionTruncateFirst(response_text, docs, max_docs) ==
    IF Upper(response_text) = NONE THEN <<>>
    ELSE LET doc_ids == SliceTo(ExtractDocIds(response_text), max_docs)
             Known(d_id) == d_id \in DocIds(docs)
         IN SelectSeq(doc_ids, Known)

\* the parse of the response text, once stripped
ParseSelection(response_text, docs, max_docs) ==
    IF Upper(response_text) = NONE THEN <<>>
    ELSE LET doc_ids == ExtractDocIds(response_text)
             Known(d_id) == d_id \in DocIds(docs)
             valid_ids == SelectSeq(doc_ids, Known)
         IN SliceTo(valid_ids, max_docs)

\* (mutant) the emptiness test is left out
SelectGuardLoadedOnly(isLoaded, docs) == ~isLoaded

\* if not _index.loaded or len(_index.documents) == 0
SelectGuard(isLoaded, docs) == ~isLoaded \/ Len(docs) = 0

----------------------------------------------------------------------------
(* The response LLM call.                                                  *)

\* format_context_for_claude: one block per document, numbered from 1
FormatContext(docs) == [i \in 1..Len(docs) |-> [index |-> i, doc |-> docs[i]]]

NoPrompt == [template |-> "none", context |-> <<>>]
SYSTEM_PROMPT == [template |-> "bare", context |-> <<>>]
SYSTEM_PROMPT_WITH_CONTEXT(context) == [template |-> "with_context", context |-> context]

\* (mutant) the documents are never put into the prompt
ChooseSystemPromptBare(docs) == SYSTEM_PROMPT

\* if documents: ... else: ...
ChooseSystemPrompt(docs) ==
    IF Len(docs) > 0 THEN SYSTEM_PROMPT_WITH_CONTEXT(FormatContext(docs))
    ELSE SYSTEM_PROMPT

NoGenRequest == [system |-> NoPrompt, messages |-> <<>>]

UserTurn(message) == [role |-> "user", content |-> message]
AssistantTurn(reply) == [role |-> "assistant", content |-> reply]

\* conversations[user_id][-10:]
TruncateHistory(turns) == SliceLast(turns, HistoryLimit)

----------------------------------------------------------------------------
(* Worker threads.                                                         *)

NoResult == [kind |-> "none", msg |-> 0, ids |-> <<>>]

IdleFrame ==
    [pc |-> "idle", entry |-> "none", user_id |-> "none", message |-> 0,
     max_docs |-> 0, sess0 |-> <<>>, used |-> 0, idx |-> 0, lines |-> <<>>,
     summaries |-> <<>>, request |-> NoRequest, resp |-> NoResponse,
     doc_ids |-> <<>>, docs |-> <<>>, system_prompt |-> NoPrompt, tmp |-> <<>>,
     gen_request |-> NoGenRequest, result |-> NoResult]

\* the call returns: its locals are gone, the caller holds the value
Return(kind, msg, ids) ==
    [IdleFrame EXCEPT !.result = [kind |-> kind, msg |-> msg, ids |-> ids]]

\* an exception leaves the call
Raise(f) == Return("raised", f.message, <<>>)

\* (mutant) the selector's exception is not caught
SelectorExceptPropagates(f) == Raise(f)

\* except Exception in select_relevant_docs: return []
SelectorExcept(f) == [f EXCEPT !.pc = "sel_ret", !.doc_ids = <<>>]

\* except Exception in ask_claude: return f"API error: {e}"
GenerationExcept(f) == Return("api_error", f.message, <<>>)

Session(u) == IF u \in DOMAIN conversations THEN conversations[u] ELSE <<>>

\* (mutant) one history list shared by all users
SetSessionShared(u, turns) ==
    [x \in DOMAIN conversations \cup {u} |-> turns]

SetSession(u, turns) ==
    [x \in DOMAIN conversations \cup {u} |-> IF x = u THEN turns ELSE conversations[x]]

indexVars == <<documents, loaded, summaries_cache, loader>>

----------------------------------------------------------------------------
(* load_from_directory, run by the loading thread.                         *)

\* the call, the missing-directory return, the start of the scan
LoadBegin(d) ==
    /\ loader.pc = "idle"
    /\ loader' = IF d.exists
                 THEN [pc |-> "scan", dir |-> d, pending |-> d.files,
                       loads |-> loader.loads + 1]
                 ELSE [loader EXCEPT !.dir = d, !.loads = @ + 1]
    /\ selLog' = IF d.exists THEN {} ELSE selLog
    /\ UNCHANGED <<conversations, documents, loaded, summaries_cache, started,
                   frame, nextMsg>>

\* one file of the glob, in whatever order the directory yields them
LoadFile ==
    /\ loader.pc = "scan"
    /\ \E f \in loader.pending :
          /\ documents' = IF f.kind = "ok"
                          THEN PutDocument(documents, [id |-> f.stem, src |-> loader.dir])
                          ELSE documents
          /\ loader' = [loader EXCEPT !.pending = @ \ {f}]
    /\ UNCHANGED <<conversations, loaded, summaries_cache, started, frame, selLog,
                   nextMsg>>

\* self.loaded = True
LoadSetLoaded ==
    /\ loader.pc = "scan"
    /\ loader.pending = {}
    /\ loaded' = TRUE
    /\ loader' = [loader EXCEPT !.pc = "reset_cache"]
    /\ UNCHANGED <<conversations, documents, summaries_cache, started, frame, selLog,
                   nextMsg>>

\* self._summaries_cache = ""
LoadResetCache ==
    /\ loader.pc = "reset_cache"
    /\ summaries_cache' = <<>>
    /\ loader' = [loader EXCEPT !.pc = "idle"]
    /\ UNCHANGED <<conversations, documents, loaded, started, frame, selLog, nextMsg>>

\* handler.start(): after load_documents has returned
Start ==
    /\ ~started
    /\ loader.pc = "idle"
    /\ loader.loads = 1
    /\ started' = TRUE
    /\ UNCHANGED <<conversations, indexVars, frame, selLog, nextMsg>>

----------------------------------------------------------------------------
(* select_relevant_docs and get_summaries_for_selection.                   *)

\* a direct call select_relevant_docs(query, max_docs)
CallSelect(t, k) ==
    /\ frame[t].pc = "idle"
    /\ frame' = [frame EXCEPT ![t] =
                    [IdleFrame EXCEPT !.pc = "sel_check", !.entry = "select",
                                      !.message = nextMsg, !.max_docs = k]]
    /\ nextMsg' = nextMsg + 1
    /\ UNCHANGED <<conversations, indexVars, started, selLog>>

SelCheck(t) ==
    /\ frame[t].pc = "sel_check"
    /\ frame' = [frame EXCEPT ![t] =
                    IF SelectGuard(loaded, documents)
                    THEN [@ EXCEPT !.pc = "sel_ret", !.doc_ids = <<>>]
                    ELSE [@ EXCEPT !.pc = "sum_check"]]
    /\ UNCHANGED <<conversations, indexVars, started, selLog, nextMsg>>

\* if self._summaries_cache: return it; else start iterating the dict
SumCheck(t) ==
    /\ frame[t].pc = "sum_check"
    /\ frame' = [frame EXCEPT ![t] =
                    IF summaries_cache # <<>>
                    THEN [@ EXCEPT !.pc = "sel_call", !.summaries = summaries_cache]
                    ELSE [@ EXCEPT !.pc = "sum_iter", !.lines = <<>>, !.idx = 1,
                                   !.used = Len(documents)]]
    /\ UNCHANGED <<conversations, indexVars, started, selLog, nextMsg>>

\* one step of the dict iterator: it raises when the dict changed size
SumIter(t) ==
    /\ frame[t].pc = "sum_iter"
    /\ frame' = [frame EXCEPT ![t] =
                    IF Len(documents) # @.used THEN Raise(@)
                    ELSE IF @.idx > Len(documents) THEN [@ EXCEPT !.pc = "sum_store"]
                    ELSE [@ EXCEPT !.lines = Append(@, ListingEntry(frame[t].idx,
                                                                    documents[frame[t].idx])),
                                   !.idx = @ + 1]]
    /\ UNCHANGED <<conversations, indexVars, started, selLog, nextMsg>>

\* self._summaries_cache = "\n".join(lines)
SumStore(t) ==
    /\ frame[t].pc = "sum_store"
    /\ summaries_cache' = frame[t].lines
    /\ frame' = [frame EXCEPT ![t] = [@ EXCEPT !.pc = "sum_ret"]]
    /\ UNCHANGED <<conversations, documents, loaded, loader, started, selLog, nextMsg>>

\* return self._summaries_cache
SumRet(t) ==
    /\ frame[t].pc = "sum_ret"
    /\ frame' = [frame EXCEPT ![t] =
                    [@ EXCEPT !.pc = "sel_call", !.summaries = summaries_cache,
                              !.lines = <<>>, !.idx = 0, !.used = 0]]
    /\ UNCHANGED <<conversations, indexVars, started, selLog, nextMsg>>

\* client.messages.create(...) is sent
SelCall(t) ==
    /\ frame[t].pc = "sel_call"
    /\ LET req == SelectorRequest(frame[t].message, frame[t].max_docs, frame[t].summaries)
       IN /\ frame' = [frame EXCEPT ![t] = [@ EXCEPT !.pc = "sel_wait", !.request = req]]
          /\ selLog' = selLog \cup {req}
    /\ UNCHANGED <<conversations, indexVars, started, nextMsg>>

\* the response arrives and is parsed, or the call / the parse raises
SelRecv(t, r) ==
    /\ frame[t].pc = "sel_wait"
    /\ frame' = [frame EXCEPT ![t] =
                    IF r.kind = "text"
                    THEN [@ EXCEPT !.pc = "sel_ret", !.resp = r,
                                   !.doc_ids = ParseSelection(Strip(ResponseText(r)),
                                                              documents, frame[t].max_docs)]
                    ELSE SelectorExcept([@ EXCEPT !.resp = r])]
    /\ UNCHANGED <<conversations, indexVars, started, selLog, nextMsg>>

\* select returns: to its caller, or into retrieve_documents and ask_claude
SelRet(t) ==
    /\ frame[t].pc = "sel_ret"
    /\ frame' = [frame EXCEPT ![t] =
                    IF @.entry = "select" THEN Return("ids", @.message, @.doc_ids)
                    ELSE LET found == IF @.doc_ids = <<>> THEN <<>>
                                      ELSE GetDocumentsByIds(documents, @.doc_ids)
                         IN [@ EXCEPT !.pc = "append_user", !.docs = found,
                                      !.system_prompt = ChooseSystemPrompt(found),
                                      !.summaries = <<>>, !.request = NoRequest,
                                      !.resp = NoResponse]]
    /\ UNCHANGED <<conversations, indexVars, started, selLog, nextMsg>>

SelectStep(t, R) ==
    \/ SelCheck(t)
    \/ SumCheck(t)
    \/ SumIter(t)
    \/ SumStore(t)
    \/ SumRet(t)
    \/ SelCall(t)
    \/ \E r \in R : SelRecv(t, r)
    \/ SelRet(t)

----------------------------------------------------------------------------
(* ask_claude and reset_command.                                           *)

\* an event handler (handle_dm, handle_mention, ask_command) calls ask_claude
Deliver(t, u) ==
    /\ started
    /\ frame[t].pc = "idle"
    /\ frame' = [frame EXCEPT ![t] =
                    [IdleFrame EXCEPT !.pc = "ac_check", !.entry = "ask", !.user_id = u,
                                      !.message = nextMsg, !.max_docs = AskMaxDocs,
                                      !.sess0 = Session(u)]]
    /\ nextMsg' = nextMsg + 1
    /\ UNCHANGED <<conversations, indexVars, started, selLog>>

\* if user_id not in conversations
AcCheck(t) ==
    /\ frame[t].pc = "ac_check"
    /\ frame' = [frame EXCEPT ![t] =
                    [@ EXCEPT !.pc = IF frame[t].user_id \in DOMAIN conversations
                                     THEN "sel_check" ELSE "ac_create"]]
    /\ UNCHANGED <<conversations, indexVars, started, selLog, nextMsg>>

\* conversations[user_id] = []
AcCreate(t) ==
    /\ frame[t].pc = "ac_create"
    /\ conversations' = SetSession(frame[t].user_id, <<>>)
    /\ frame' = [frame EXCEPT ![t] = [@ EXCEPT !.pc = "sel_check"]]
    /\ UNCHANGED <<indexVars, started, selLog, nextMsg>>

\* conversations[user_id].append({"role": "user", "content": message})
AppendUser(t) ==
    /\ frame[t].pc = "append_user"
    /\ conversations' = SetSession(frame[t].user_id,
                                   Append(conversations[frame[t].user_id],
                                          UserTurn(frame[t].message)))
    /\ frame' = [frame EXCEPT ![t] = [@ EXCEPT !.pc = "slice"]]
    /\ UNCHANGED <<indexVars, started, selLog, nextMsg>>

\* the right-hand side conversations[user_id][-10:]
SliceRead(t) ==
    /\ frame[t].pc = "slice"
    /\ frame' = [frame EXCEPT ![t] =
                    [@ EXCEPT !.pc = "assign",
                              !.tmp = TruncateHistory(conversations[frame[t].user_id])]]
    /\ UNCHANGED <<conversations, indexVars, started, selLog, nextMsg>>

\* conversations[user_id] = <the slice>
SliceAssign(t) ==
    /\ frame[t].pc = "assign"
    /\ conversations' = SetSession(frame[t].user_id, frame[t].tmp)
    /\ frame' = [frame EXCEPT ![t] = [@ EXCEPT !.pc = "gen_call", !.tmp = <<>>]]
    /\ UNCHANGED <<indexVars, started, selLog, nextMsg>>

\* claude.messages.create(system=system_prompt, messages=conversations[user_id])
GenCall(t) ==
    /\ frame[t].pc = "gen_call"
    /\ frame' = [frame EXCEPT ![t] =
                    [@ EXCEPT !.pc = "gen_wait",
                              !.gen_request =
                                  [system |-> frame[t].system_prompt,
                                   messages |-> conversations[frame[t].user_id]]]]
    /\ UNCHANGED <<conversations, indexVars, started, selLog, nextMsg>>

\* the reply arrives and is saved, or the call raises
GenRecv(t, ok) ==
    /\ frame[t].pc = "gen_wait"
    /\ IF ok
       THEN /\ conversations' = SetSession(frame[t].user_id,
                                           Append(conversations[frame[t].user_id],
                                                  AssistantTurn(frame[t].message)))
            /\ frame' = [frame EXCEPT ![t] = Return("reply", @.message, <<>>)]
       ELSE /\ conversations' = conversations
            /\ frame' = [frame EXCEPT ![t] = GenerationExcept(@)]
    /\ UNCHANGED <<indexVars, started, selLog, nextMsg>>

\* /claude-reset: conversations[user_id] = []
Reset(u) ==
    /\ started
    /\ conversations' = SetSession(u, <<>>)
    /\ nextMsg' = nextMsg + 1
    /\ UNCHANGED <<indexVars, started, frame, selLog>>

AskStep(t) ==
    \/ AcCheck(t)
    \/ AcCreate(t)
    \/ AppendUser(t)
    \/ SliceRead(t)
    \/ SliceAssign(t)
    \/ GenCall(t)
    \/ \E ok \in BOOLEAN : GenRecv(t, ok)

----------------------------------------------------------------------------
(* Specifications.                                                         *)

Init ==
    /\ conversations = <<>>
    /\ documents = <<>>
    /\ loaded = FALSE
    /\ summaries_cache = <<>>
    /\ loader = [pc |-> "idle", dir |-> MissingDir, pending |-> {}, loads |-> 0]
    /\ started = FALSE
    /\ frame = [t \in Threads |-> IdleFrame]
    /\ selLog = {}
    /\ nextMsg = 1

LoadStep == LoadFile \/ LoadSetLoaded \/ LoadResetCache

AllIdle == \A t \in Threads : frame[t].pc = "idle"

\* app.py run as a program: one load, then the handlers on T serve users U;
\* serial: a command is handled only when no other handler is running
AppNext(T, U, cap, serial) ==
    \/ \E d \in AppDirs : loader.loads = 0 /\ LoadBegin(d)
    \/ LoadStep
    \/ Start
    \/ \E t \in T, u \in U : nextMsg <= cap /\ Deliver(t, u)
    \/ \E u \in U : nextMsg <= cap /\ (serial => AllIdle) /\ Reset(u)
    \/ \E t \in T : AskStep(t) \/ SelectStep(t, AppResponses)

\* handlers run concurrently on the worker threads
Next == AppNext(Threads, Users, MaxConcEvents, FALSE)
Spec == Init /\ [][Next]_vars

\* one handler at a time, one user
NextSeq == AppNext({"t1"}, {"u1"}, MaxSeqEvents, TRUE)
SpecSeq == Init /\ [][NextSeq]_vars

\* one user whose messages are handled one at a time, and whose reset command
\* is handled on another worker at any moment
NextReset == AppNext({"t1"}, {"u1"}, MaxResetEvents, FALSE)
SpecReset == Init /\ [][NextReset]_vars

\* agent.py used as a library by one caller: loads and selects do not overlap
NextLib ==
    \/ \E d \in Dirs : loader.loads < MaxLoads /\ AllIdle /\ LoadBegin(d)
    \/ LoadStep
    \/ \E k \in 1..MaxDocsArg :
          nextMsg <= MaxLibCalls /\ loader.pc = "idle" /\ CallSelect("t1", k)
    \/ SelectStep("t1", LibResponses)
SpecLib == Init /\ [][NextLib]_vars

\* the same with a load running concurrently with the caller
NextRace ==
    \/ \E d \in Dirs : loader.loads < MaxLoads /\ LoadBegin(d)
    \/ LoadStep
    \/ \E k \in 1..MaxDocsArg : nextMsg <= MaxLibCalls /\ CallSelect("t1", k)
    \/ SelectStep("t1", AppResponses)
SpecRace == Init /\ [][NextRace]_vars

----------------------------------------------------------------------------
(* Properties.                                                             *)

Range(seq) == {seq[i] : i \in 1..Len(seq)}

\* the ids a text response names that the index knows, in response order
IsKnownLine(tok) == tok.core \in DocIds(documents)
KnownCores(lines) ==
    LET kept == SelectSeq(lines, IsKnownLine)
    IN [i \in 1..Len(kept) |-> kept[i].core]

\* the response is the word NONE, whatever its casing and the blanks around it
IsWordLine(tok) == tok.core # <<>>
IsNoneResponse(lines) ==
    LET words == SelectSeq(lines, IsWordLine)
    IN Len(words) = 1 /\ words[1].core = NoneWord

\* C1: whenever no handler is running, every user's session holds at most 10
\* turns: the truncation follows the assistant-turn append as it follows the
\* user-turn append.
C1_SessionAtMostTen ==
    AllIdle => \A u \in DOMAIN conversations : Len(conversations[u]) <= HistoryLimit

\* C2: when the response call fails, the session right after ask_claude returns
\* is the session as it was when ask_claude was called.
C2_FailedTurnLeavesSession ==
    [][\A t \in Threads :
          (frame[t].pc = "gen_wait" /\ frame'[t].pc = "idle"
              /\ frame'[t].result.kind = "api_error")
          => LET u == frame[t].user_id
             IN (IF u \in DOMAIN conversations' THEN conversations'[u] ELSE <<>>)
                    = frame[t].sess0]_vars

C4_NoLostTurn ==
    [][\A t \in Threads :
          ((frame[t].pc = "assign" /\ frame'[t].pc = "gen_call")
              \/ (frame[t].pc = "ac_create" /\ frame'[t].pc = "sel_check"))
          => LET u == frame[t].user_id
             IN Range(TruncateHistory(Session(u))) \subseteq Range(conversations'[u])]_vars

\* C5: on a loaded non-empty store and a text response other than NONE, select
\* returns the first max_docs of the known ids of the response, in response order.
C5_SelectionIsFilteredThenTruncated ==
    \A t \in Threads :
        (frame[t].pc = "sel_ret" /\ frame[t].resp.kind = "text"
            /\ ~IsNoneResponse(frame[t].resp.lines))
        => LET known == KnownCores(frame[t].resp.lines)
               got == frame[t].doc_ids
           IN /\ Len(got) = Min(frame[t].max_docs, Len(known))
              /\ Len(got) <= frame[t].max_docs
              /\ \A i \in 1..Len(got) : got[i] = known[i] /\ got[i] \in DocIds(documents)

C5_Witness ==
    \E t \in Threads :
        /\ frame[t].pc = "sel_ret" /\ frame[t].resp.kind = "text"
        /\ \E i \in 1..Len(frame[t].resp.lines) : frame[t].resp.lines[i].core = IdZ
        /\ frame[t].resp.lines[1].core = IdZ
        /\ Len(KnownCores(frame[t].resp.lines)) > frame[t].max_docs
        /\ frame[t].max_docs > 0
        /\ Len(frame[t].doc_ids) = frame[t].max_docs

\* C6: select on a store that is empty or not loaded (also while the first load
\* is running) returns the empty sequence and sends no selector request.
C6_EmptyStoreSelectsNothing ==
    /\ [](\A t \in Threads :
            (frame[t].pc = "sel_ret" /\ frame[t].request = NoRequest)
            => frame[t].doc_ids = <<>>)
    /\ [][\A t \in Threads :
            (frame[t].pc = "sel_check" /\ frame'[t] # frame[t]
                /\ (~loaded \/ Len(documents) = 0))
            => /\ frame'[t] = [frame[t] EXCEPT !.pc = "sel_ret", !.doc_ids = <<>>]
               /\ frame'[t].request = NoRequest
               /\ selLog' = selLog]_vars

C6_Witness ==
    \E t \in Threads :
        /\ frame[t].pc = "sel_ret" /\ frame[t].request = NoRequest
        /\ frame[t].doc_ids = <<>>
        /\ loader.pc = "scan" /\ ~loaded /\ documents # <<>>

\* C7: ask_claude uses the template with context exactly when the selection
\* resolved to at least one document; after NONE, unknown ids only, a selector
\* error or an empty store the selection is empty, the bare template is used, and
\* ask_claude still returns only from the response call.
AfterSelection == {"append_user", "slice", "assign", "gen_call", "gen_wait"}
C7_ContextIffDocuments ==
    /\ [](\A t \in Threads :
            frame[t].entry = "ask" =>
            /\ (frame[t].pc = "sel_ret"
                  /\ \/ frame[t].request = NoRequest
                     \/ frame[t].resp.kind \in {"api_error", "malformed"}
                     \/ /\ frame[t].resp.kind = "text"
                        /\ \/ IsNoneResponse(frame[t].resp.lines)
                           \/ KnownCores(frame[t].resp.lines) = <<>>)
               => frame[t].doc_ids = <<>>
            /\ frame[t].pc \in AfterSelection
               => /\ frame[t].system_prompt.template \in {"bare", "with_context"}
                  /\ frame[t].system_prompt.template = "with_context"
                        <=> frame[t].doc_ids # <<>>
                  /\ Len(frame[t].system_prompt.context) = Len(frame[t].doc_ids)
            /\ frame[t].pc = "gen_wait"
               => frame[t].gen_request.system = frame[t].system_prompt)
    /\ [][\A t \in Threads :
            (frame[t].entry = "ask" /\ frame'[t].pc = "idle" /\ frame[t].pc # "idle")
            => frame[t].pc = "gen_wait"]_vars

C7_Witness ==
    \E t, t2 \in Threads :
        /\ frame[t].pc = "gen_wait" /\ frame[t].gen_request.system.template = "bare"
        /\ loaded /\ documents # <<>>
        /\ frame[t2].pc = "gen_wait"
        /\ frame[t2].gen_request.system.template = "with_context"

\* C8: the listing a caller holds and the document mapping it reads belong to the
\* same load generation, also while a load runs concurrently.
C8_ListingMatchesCorpus ==
    \A t \in Threads :
        frame[t].pc = "sel_wait" => frame[t].summaries = Listing(documents)

\* C9: after every load of an existing directory the store holds exactly the
\* well-formed files of that directory, keyed by stem.
C9_LoadYieldsWellFormedFiles ==
    (loader.pc = "idle" /\ loader.loads > 0 /\ loader.dir.exists)
    => /\ DocIds(documents) = {f.stem : f \in WellFormed(loader.dir)}
       /\ Len(documents) = Cardinality(WellFormed(loader.dir))

\* C10 as stated: within one load generation the system blocks of all selector
\* requests are identical, for any queries and any max_docs.
C10_SystemBlocksIdentical ==
    \A r1, r2 \in selLog : r1.system = r2.system

\* C10 as amended: within one load generation the trailer and the listing are
\* identical in all selector requests, and the whole system payload is identical
\* in requests made with the same max_docs, for any queries.
C10_SystemBlocksIdenticalPerMaxDocs ==
    \A r1, r2 \in selLog :
        /\ r1.system[2] = r2.system[2]
        /\ r1.system[1].text.listing = r2.system[1].text.listing
        /\ r1.system[1].text.rules_max_docs = r2.system[1].text.rules_max_docs
              => r1.system = r2.system

C10_Witness ==
    \E r1, r2 \in selLog :
        /\ r1.messages # r2.messages
        /\ r1.system[1].text.rules_max_docs = r2.system[1].text.rules_max_docs
        /\ r1.system[1].text.listing # <<>>
        /\ r1.system = r2.system

\* C11: reset empties the user's session and the turns after it start fresh: a
\* reset step leaves the session empty, and a session that is empty never
\* becomes anything but a session of one turn, also when a respond call of the
\* same user is under way while the reset runs.
C11_ResetStartsFresh ==
    [][\A u \in Users :
          /\ (frame' = frame /\ nextMsg' # nextMsg /\ Session(u)' # Session(u))
                => Session(u)' = <<>>
          /\ (u \in DOMAIN conversations /\ conversations[u] = <<>>
                /\ conversations'[u] # <<>>)
                => Len(conversations'[u]) = 1]_vars

\* C12: the history a respond call sends to the response LLM holds at most 10
\* entries and ends with the user turn of that call.
C12_HistoryEndsWithNewUserTurn ==
    \A t \in Threads :
        frame[t].pc = "gen_wait"
        => LET sent == frame[t].gen_request.messages
           IN /\ Len(sent) <= HistoryLimit
              /\ Len(sent) >= 1
              /\ sent[Len(sent)] = UserTurn(frame[t].message)

\* the turns held for user u: the session, and what the calls under way for u
\* have read from it, have sent, or are about to add to it
TurnsHeld(u) ==
    Range(Session(u))
    \cup UNION {Range(frame[t].tmp) \cup Range(frame[t].gen_request.messages)
                  \cup {UserTurn(frame[t].message), AssistantTurn(frame[t].message)} :
                t \in {x \in Threads : frame[x].pc # "idle" /\ frame[x].user_id = u}}

\* C13: sessions are independent per user: a step of a respond call for user A
\* or a reset of A changes no other user's session, no turn is ever held for
\* two users, and the history sent to the LLM for A is taken from A's session,
\* also with calls for different users in parallel.
C13_SessionsIndependent ==
    /\ [](\A a, b \in Users : a # b => TurnsHeld(a) \cap TurnsHeld(b) = {})
    /\ [][/\ \A b \in Users :
                Session(b)' # Session(b)
                => \/ \E t \in Threads : frame'[t] # frame[t] /\ frame[t].user_id = b
                   \/ /\ frame' = frame
                      /\ Session(b)' = <<>>
                      /\ \A c \in Users \ {b} : Session(c)' = Session(c)
          /\ \A t \in Threads :
                (frame[t].pc = "gen_call" /\ frame'[t].pc = "gen_wait")
                => Range(frame'[t].gen_request.messages)
                       \subseteq Range(Session(frame[t].user_id))]_vars

C13_Witness ==
    \E t, t2 \in Threads :
        /\ frame[t].pc = "gen_wait" /\ frame[t2].pc = "gen_wait"
        /\ frame[t].user_id # frame[t2].user_id
        /\ frame[t].gen_request.messages = <<UserTurn(frame[t].message)>>
        /\ frame[t2].gen_request.messages = <<UserTurn(frame[t2].message)>>
        /\ Session(frame[t].user_id) # Session(frame[t2].user_id)

\* C14: the selection select returns names no document twice, whatever the
\* selector response contains, so neither does the lookup made from it.
C14_SelectionHasNoDuplicates ==
    \A t \in Threads :
        frame[t].pc = "sel_ret"
        => /\ \A i, j \in 1..Len(frame[t].doc_ids) :
                 frame[t].doc_ids[i] = frame[t].doc_ids[j] => i = j
           /\ LET found == GetDocumentsByIds(documents, frame[t].doc_ids)
              IN \A i, j \in 1..Len(found) : found[i] = found[j] => i = j

\* C15: with events handled one at a time, the history sent to the response
\* LLM begins with a user turn and alternates user and assistant turns.
C15_HistoryAlternates ==
    \A t \in Threads :
        frame[t].pc = "gen_wait"
        => LET sent == frame[t].gen_request.messages
           IN /\ Len(sent) >= 1
              /\ sent[1].role = "user"
              /\ \A i \in 1..(Len(sent) - 1) : sent[i].role # sent[i + 1].role

====
